---- MODULE Spec2Model ----
(***************************************************************************)
(* A model of the ReTrigger converters (src/retrigger/converters.py):      *)
(*   - MultiResponse.convert, the parser of the ';'-separated multi        *)
(*     response pattern, with the role and emoji resolution it performs;   *)
(*   - the Trigger class: construction, to_json / from_json, enable /      *)
(*     disable / toggle.                                                   *)
(*                                                                         *)
(* Strings.  A command argument is a sequence of chunks; a chunk is either *)
(* the delimiter ";" or a piece of text without ';'.  The string it        *)
(* stands for is the concatenation of its chunks, so                       *)
(*   <<"add_role", ";", "Moderator">>  is  "add_role;Moderator".           *)
(***************************************************************************)
EXTENDS Integers, Sequences, FiniteSets, TLC

(***************************************************************************)
(* Bounds                                                                  *)
(***************************************************************************)
\* the largest number of ';'-separated argument fields of an input
MaxArgs == 2

(***************************************************************************)
(* The guild the command is run in (discord.py objects read through ctx)   *)
(***************************************************************************)
\* the permission flags convert reads from ctx.channel.permissions_for
Permissions ==
    {"manage_roles", "manage_messages", "ban_members", "kick_members", "add_reactions"}

\* the roles of the guild: name, id and place in the hierarchy
GuildRoles ==
    { [name |-> "Helper",    id |-> 101, position |-> 1],
      [name |-> "Moderator", id |-> 102, position |-> 2] }

\* the places in the hierarchy a member's top role can have
TopPositions == 1..3

\* the custom emojis of the guild when the command is given; str is str(emoji)
GuildEmojis == { [name |-> "smile", id |-> 77, str |-> "<:smile:77>"] }

\* the unicode emojis: the arguments ctx.message.add_reaction accepts
UnicodeEmojis == {"U+1F44D"}

(***************************************************************************)
(* MultiResponse.convert                                                   *)
(***************************************************************************)
valid_reactions ==
    {"dm", "dmme", "remove_role", "add_role", "ban", "kick", "text", "filter",
     "delete", "publish", "react", "rename", "command", "mock"}

\* re.split(r"(;)", argument): the fields and, between them, the delimiters
RECURSIVE SplitFrom(_, _, _)
SplitFrom(s, i, cur) ==
    IF i > Len(s) THEN <<cur>>
    ELSE IF s[i] = ";" THEN <<cur, ";">> \o SplitFrom(s, i + 1, "")
    ELSE SplitFrom(s, i + 1, cur \o s[i])

re_split(argument) ==
    SplitFrom(argument, 1, "")

\* for m in match: if m == ";": continue else: result.append(m)
DropDelimiters(match) ==
    SelectSeq(match, LAMBDA m : m # ";")

\* variant of NormalizeAlias: the alias is left as written
NormalizeAlias_skipped(result) ==
    result

\* if result[0] == "filter": result[0] = "delete"
NormalizeAlias(result) ==
    IF result[1] = "filter" THEN [result EXCEPT ![1] = "delete"] ELSE result

\* the messages of the BadArgument errors convert raises
ErrNotValidType(response) ==
    "'" \o response \o "' is not a valid reaction type."

ErrNotValidPattern ==
    "The provided multi response pattern is not valid."

ErrRequire(permission_name) ==
    "I require \"" \o permission_name \o "\" permission to use that."

ErrNotCreating ==
    "Not creating trigger."

\* the kinds that may come without an argument
NoArgumentKinds ==
    {"delete", "ban", "kick"}

\* variant of MissingArguments: every kind needs an argument
MissingArguments_no_exemption(result) ==
    Len(result) < 2

\* len(result) < 2 and result[0] not in ["delete", "ban", "kick"]
MissingArguments(result) ==
    Len(result) < 2 /\ result[1] \notin NoArgumentKinds

\* variant of PermissionError: the role kinds test the flag of the message kinds
PermissionError_wrong_flag(result, perms) ==
    IF result[1] \in {"add_role", "remove_role"} /\ "manage_messages" \notin perms
        THEN ErrRequire("Manage Roles")
    ELSE IF result[1] = "publish" /\ "manage_messages" \notin perms
        THEN ErrRequire("Manage Messages")
    ELSE IF result[1] = "ban" /\ "ban_members" \notin perms
        THEN ErrRequire("Ban Members")
    ELSE IF result[1] = "kick" /\ "kick_members" \notin perms
        THEN ErrRequire("Kick Members")
    ELSE IF result[1] = "react" /\ "add_reactions" \notin perms
        THEN ErrRequire("Add Reactions")
    ELSE ""

\* the chain of permission tests on my_perms; "" when none of them raises
PermissionError(result, perms) ==
    IF result[1] \in {"add_role", "remove_role"} /\ "manage_roles" \notin perms
        THEN ErrRequire("Manage Roles")
    ELSE IF result[1] = "filter" /\ "manage_messages" \notin perms
        THEN ErrRequire("Manage Messages")
    ELSE IF result[1] = "publish" /\ "manage_messages" \notin perms
        THEN ErrRequire("Manage Messages")
    ELSE IF result[1] = "ban" /\ "ban_members" \notin perms
        THEN ErrRequire("Ban Members")
    ELSE IF result[1] = "kick" /\ "kick_members" \notin perms
        THEN ErrRequire("Kick Members")
    ELSE IF result[1] = "react" /\ "add_reactions" \notin perms
        THEN ErrRequire("Add Reactions")
    ELSE ""

\* variant of UnknownKind: only an empty first field is refused
UnknownKind_only_empty(match) ==
    match[1] = ""

\* match[0] not in valid_reactions
UnknownKind(match) ==
    match[1] \notin valid_reactions

\* convert up to the mock confirmation: the error raised ("" when none) and
\* the list of fields built so far
Validate(argument, perms) ==
    LET match  == re_split(argument)
        result == NormalizeAlias(DropDelimiters(match))
    IN  IF UnknownKind(match)
            THEN [error |-> ErrNotValidType(match[1]), result |-> <<>>]
        ELSE IF MissingArguments(result)
            THEN [error |-> ErrNotValidPattern, result |-> <<>>]
        ELSE IF PermissionError(result, perms) # ""
            THEN [error |-> PermissionError(result, perms), result |-> <<>>]
        ELSE [error |-> "", result |-> result]

\* RoleConverter().convert(ctx, r): the roles of the guild r names (one or none)
RoleConverter(r) ==
    { role \in GuildRoles : role.name = r }

\* variant of RoleBelow: a role at the place of the top role passes
RoleBelow_or_equal(role, top) ==
    role.position <= top

\* role < top_role, for a top role at place top
RoleBelow(role, top) ==
    role.position < top

\* author_perms(ctx, role); owner: ctx.author.id == ctx.guild.owner_id
author_perms(owner, a_top, role) ==
    IF owner THEN TRUE ELSE RoleBelow(role, a_top)

\* variant of good_roles: each role found is put in front of the list
RECURSIVE good_roles_reversed(_, _, _, _, _)
good_roles_reversed(result, i, owner, a_top, b_top) ==
    IF i > Len(result) THEN <<>>
    ELSE LET found == RoleConverter(result[i])
             rest  == good_roles_reversed(result, i + 1, owner, a_top, b_top)
         IN  IF found = {} THEN rest
             ELSE LET role == CHOOSE x \in found : TRUE
                  IN  IF RoleBelow(role, b_top) /\ author_perms(owner, a_top, role)
                          THEN rest \o <<role.id>>
                          ELSE rest

\* the loop over result[1:] that collects good_roles
RECURSIVE good_roles(_, _, _, _, _)
good_roles(result, i, owner, a_top, b_top) ==
    IF i > Len(result) THEN <<>>
    ELSE LET found == RoleConverter(result[i])
             rest  == good_roles(result, i + 1, owner, a_top, b_top)
         IN  IF found = {} THEN rest
             ELSE LET role == CHOOSE x \in found : TRUE
                  IN  IF RoleBelow(role, b_top) /\ author_perms(owner, a_top, role)
                          THEN <<role.id>> \o rest
                          ELSE rest

\* the id in an argument of 15 to 20 digits or of the form <:name:id>: group(1)
MatchedId(argument) ==
    IF argument = "<:smile:77>" THEN {77} ELSE {}

\* the name in an argument of the form :name:, colons removed: group(2)
MatchedName(argument) ==
    IF argument = ":smile:" THEN {"smile"} ELSE {}

\* str(result)[1:-1] of a custom emoji
StripEnds(s) ==
    IF s = "<:smile:77>" THEN ":smile:77" ELSE s

\* ValidEmoji.convert up to its test of result: the emojis of guild.emojis or
\* bot.emojis the argument names
FoundEmoji(argument, emojis) ==
    IF MatchedId(argument) = {} /\ MatchedName(argument) = {}
        THEN { e \in emojis : e.name = argument }
    ELSE IF MatchedId(argument) # {}
        THEN { e \in emojis : e.id \in MatchedId(argument) }
    ELSE { e \in emojis : e.name \in MatchedName(argument) }

\* await ctx.message.add_reaction(argument) does not raise
ReactionAccepted(argument) ==
    argument \in UnicodeEmojis

\* ValidEmoji().convert(ctx, argument) in a guild whose emojis are emojis: the
\* emoji reference, or none (BadArgument)
ValidEmoji(argument, emojis) ==
    LET found == FoundEmoji(argument, emojis)
    IN  IF found # {} THEN { StripEnds((CHOOSE e \in found : TRUE).str) }
        ELSE IF ReactionAccepted(argument) THEN {argument}
        ELSE {}

\* a call of convert: the place it is at and its locals; r is the index in
\* result of the argument being converted (0 outside the loop over emojis)
Running(at, res, good, r, looked, seen) ==
    [pc |-> at, result |-> res, good_emojis |-> good, r_index |-> r,
     lookups |-> looked, emojis_seen |-> seen]

\* the loop over result[1:] that collects good_emojis, from the argument at i
\* up to the next await of add_reaction or, past the last argument, the return
RECURSIVE EmojiLoop(_, _, _, _, _, _)
EmojiLoop(res, i, good, looked, seen, emojis) ==
    IF i > Len(res)
        THEN Running("returned", <<res[1]>> \o good, good, 0, looked, seen)
    ELSE LET found == FoundEmoji(res[i], emojis)
         IN  IF found # {}
                 THEN EmojiLoop(res, i + 1,
                                good \o <<StripEnds((CHOOSE e \in found : TRUE).str)>>,
                                looked \o <<res[i]>>, seen \o <<emojis>>, emojis)
                 ELSE Running("reacting", res, good, i,
                              looked \o <<res[i]>>, seen \o <<emojis>>)

\* variant of Rejected: the answer is not looked at
Rejected_never(pred_result) ==
    FALSE

\* if not pred.result: raise BadArgument
Rejected(pred_result) ==
    ~pred_result

\* convert after the mock confirmation, up to the return or the first await
\* of add_reaction
Resolve(res, owner, a_top, b_top, emojis) ==
    IF res[1] \in {"add_role", "remove_role"}
        THEN Running("returned", <<res[1]>> \o good_roles(res, 2, owner, a_top, b_top),
                     <<>>, 0, Tail(res), <<>>)
    ELSE IF res[1] = "react"
        THEN EmojiLoop(res, 2, <<>>, <<>>, <<>>, emojis)
    ELSE Running("returned", res, <<>>, 0, <<>>, <<>>)

(***************************************************************************)
(* Python values.  from_json tests the type of what a document holds, so a *)
(* value carries its type.                                                 *)
(***************************************************************************)
PyNone == [type |-> "NoneType", val |-> "None"]

PyBool(b) == [type |-> "bool", val |-> b]

PyInt(n) == [type |-> "int", val |-> n]

PyStr(s) == [type |-> "str", val |-> s]

PyList(xs) == [type |-> "list", val |-> xs]

PyDict(items) == [type |-> "dict", val |-> items]

\* a compiled pattern; val is its pattern text
PyPattern(p) == [type |-> "Pattern", val |-> p]

\* bool(v), as `not v` evaluates it
Truthy(v) ==
    CASE v.type = "bool" -> v.val
      [] v.type = "NoneType" -> FALSE
      [] v.type = "int" -> v.val # 0
      [] v.type = "str" -> v.val # ""
      [] OTHER -> Len(v.val) > 0

\* isinstance(v, str), isinstance(v, bool)
IsStr(v) == v.type = "str"

IsBool(v) == v.type = "bool"

\* dict.get(key, default) and the keys left after dict.pop
DictGet(d, key, default) ==
    IF key \in DOMAIN d THEN d[key] ELSE default

DictWithout(d, keys) ==
    [k \in DOMAIN d \ keys |-> d[k]]

\* d[key] = value
DictSet(d, key, value) ==
    [k \in DOMAIN d \cup {key} |-> IF k = key THEN value ELSE d[k]]

(***************************************************************************)
(* Trigger                                                                 *)
(***************************************************************************)
\* the kinds the class declares for response_type
ResponseKinds ==
    {"dm", "dmme", "remove_role", "add_role", "ban", "kick", "text", "delete",
     "publish", "react", "rename", "command", "mock"}

\* the pattern texts re.compile accepts, among those the model uses
CompilablePatterns == {"\\bspam\\b", "a+"}

\* variant of Compiles: no pattern is refused
Compiles_anything(regex) ==
    TRUE

\* re.compile(regex) does not raise
Compiles(regex) ==
    regex.val \in CompilablePatterns

\* str(e) of the exception re.compile raises
CompileError(regex) ==
    CASE regex.val = "(spam" -> "missing ), unterminated subpattern at position 0"
      [] regex.val = "[a-" -> "unterminated character set at position 0"
      [] OTHER -> "error"

\* the message of the BadArgument ValidRegex.convert raises
ErrNotValidRegex(arg, e) ==
    "'" \o arg \o "' is not a valid regex pattern. " \o e

\* ValidRegex.convert(ctx, argument): the exception raised ("" when none), its
\* message and the value returned
ValidRegex_convert(argument) ==
    IF Compiles(argument)
        THEN [exc |-> "", message |-> "", result |-> argument]
        ELSE [exc |-> "BadArgument",
              message |-> ErrNotValidRegex(argument.val, CompileError(argument)),
              result |-> PyNone]

RequiredFields == {"name", "regex", "response_type", "author"}

OptionalFields ==
    {"enabled", "count", "image", "text", "whitelist", "blacklist", "cooldown",
     "multi_payload", "created_at", "ignore_commands", "check_edits", "ocr_search",
     "delete_after", "read_filenames", "chance", "reply", "tts", "user_mention",
     "role_mention", "everyone_mention", "nsfw"}

TriggerFields == RequiredFields \cup OptionalFields

\* the defaults of kwargs.get in Trigger.__init__
Default(field) ==
    CASE field = "enabled" -> PyBool(TRUE)
      [] field = "count" -> PyInt(0)
      [] field = "image" -> PyNone
      [] field = "text" -> PyNone
      [] field = "whitelist" -> PyList(<<>>)
      [] field = "blacklist" -> PyList(<<>>)
      [] field = "cooldown" -> PyDict(<<>>)
      [] field = "multi_payload" -> PyList(<<>>)
      [] field = "created_at" -> PyInt(0)
      [] field = "ignore_commands" -> PyBool(FALSE)
      [] field = "check_edits" -> PyBool(FALSE)
      [] field = "ocr_search" -> PyBool(FALSE)
      [] field = "delete_after" -> PyNone
      [] field = "read_filenames" -> PyBool(FALSE)
      [] field = "chance" -> PyInt(0)
      [] field = "reply" -> PyNone
      [] field = "tts" -> PyBool(FALSE)
      [] field = "user_mention" -> PyBool(TRUE)
      [] field = "role_mention" -> PyBool(FALSE)
      [] field = "everyone_mention" -> PyBool(FALSE)
      [] field = "nsfw" -> PyBool(FALSE)

\* no Trigger object, no document
NoTrigger == PyNone

NoDocument == PyNone

\* what a call gives: the exception raised ("" when none) and the Trigger made
Raised(exception) == [exc |-> exception, trigger |-> NoTrigger]

Made(t) == [exc |-> "", trigger |-> t]

\* Trigger.__init__(name, regex, response_type, author, **kwargs)
Trigger_init(name, regex, response_type, author, kwargs) ==
    IF ~Compiles(regex) THEN Raised("re.error")
    ELSE Made([f \in TriggerFields |->
                 CASE f = "name" -> name
                   [] f = "regex" -> PyPattern(regex.val)
                   [] f = "response_type" -> response_type
                   [] f = "author" -> author
                   [] OTHER -> DictGet(kwargs, f, Default(f))])

\* Trigger.enable, Trigger.disable, Trigger.toggle
enable(t) == [t EXCEPT !["enabled"] = PyBool(TRUE)]

disable(t) == [t EXCEPT !["enabled"] = PyBool(FALSE)]

\* variant of toggle: the switch is always turned on
toggle_always_on(t) == [t EXCEPT !["enabled"] = PyBool(TRUE)]

toggle(t) == [t EXCEPT !["enabled"] = PyBool(~Truthy(t["enabled"]))]

\* variant of to_json: the read_filenames key is not written
to_json_without_read_filenames(t) ==
    [f \in TriggerFields \ {"read_filenames"} |->
        IF f = "regex" THEN PyStr(t["regex"].val) ELSE t[f]]

\* Trigger.to_json: the document of a Trigger
to_json(t) ==
    [f \in TriggerFields |-> IF f = "regex" THEN PyStr(t["regex"].val) ELSE t[f]]

\* "delete" in response_type, any(t in ["ban", "kick", "delete"] for t in response_type)
Contains(response_type, kinds) ==
    \E i \in 1..Len(response_type.val) : response_type.val[i] \in kinds

\* variant of ReplaceOldSetting: the boolean is copied but text is not cleared
ReplaceOldSetting_text_kept(data) ==
    DictSet(data, "read_filenames", data["text"])

\* data["read_filenames"] = data["text"]; data["text"] = None
ReplaceOldSetting(data) ==
    DictSet(DictSet(data, "read_filenames", data["text"]), "text", PyNone)

\* the keys from_json pops before it finds one of name, regex, author missing
PoppedBeforeMissing(data) ==
    IF "name" \notin DOMAIN data THEN {}
    ELSE IF "regex" \notin DOMAIN data THEN {"name"}
    ELSE {"name", "regex"}

\* what from_json gives: the exception raised ("" when none), the Trigger made
\* and the dictionary it was given, as the call leaves it
Loaded(outcome, left) ==
    [exc |-> outcome.exc, trigger |-> outcome.trigger, data |-> left]

\* Trigger.from_json(data)
from_json(data) ==
    IF ~({"name", "regex", "author"} \subseteq DOMAIN data)
        THEN Loaded(Raised("KeyError"), DictWithout(data, PoppedBeforeMissing(data)))
    ELSE
    LET name    == data["name"]
        regex   == data["regex"]
        author  == data["author"]
        popped  == DictGet(data, "response_type", PyList(<<>>))
        data1   == DictWithout(data, RequiredFields)
    IN  IF IsStr(popped) /\ "response_type" \notin DOMAIN data1
            THEN Loaded(Raised("KeyError"), data1)
        ELSE
        LET response_type == IF IsStr(popped) THEN PyList(<<data1["response_type"]>>)
                             ELSE popped
            has_delete    == Contains(response_type, {"delete"})
        IN  IF has_delete /\ "text" \notin DOMAIN data1
                THEN Loaded(Raised("KeyError"), data1)
            ELSE
            LET data2 == IF has_delete /\ IsBool(data1["text"])
                             THEN ReplaceOldSetting(data1)
                             ELSE data1
                ignore_edits == DictGet(data2, "ignore_edits", PyBool(FALSE))
                check_edits  == DictGet(data2, "check_edits", PyNone)
                data3 == IF check_edits = PyNone
                            /\ Contains(response_type, {"ban", "kick", "delete"})
                             THEN DictSet(data2, "check_edits", PyBool(~Truthy(ignore_edits)))
                             ELSE data2
            IN  Loaded(Trigger_init(name, regex, response_type, author, data3), data3)

(***************************************************************************)
(* State                                                                   *)
(***************************************************************************)
VARIABLES
    argument,             \* the string given to MultiResponse.convert
    my_perms,             \* ctx.channel.permissions_for(ctx.me): the bot's
    author_channel_perms, \* ctx.channel.permissions_for(ctx.author)
    is_owner,             \* ctx.author.id == ctx.guild.owner_id
    author_top,           \* place of ctx.author.top_role
    me_top,               \* place of ctx.guild.me.top_role
    emojis,               \* guild.emojis and bot.emojis, as they are now
    pc,                   \* "start", "sending" (the prompt), "waiting" (in wait_for),
                          \* "cancelling" (wait_for, after the timeout), "reacting"
                          \* (add_reaction), "returned", "raised"
    result,               \* the list convert builds and returns
    error,                \* the message of the BadArgument raised, "" when none
    prompted,             \* the confirmation message was sent
    answer,               \* pred.result: "yes", "no", "none"
    future,               \* the future of bot.wait_for: "none" before there is
                          \* one, "pending", "done", "cancelled"
    timed_out,            \* the timer of asyncio.wait_for has released its waiter
    good_emojis,          \* the emoji references collected so far
    r_index,              \* index in result of the argument add_reaction is awaited for
    lookups,              \* the arguments handed to RoleConverter or ValidEmoji so far
    emojis_seen,          \* for each emoji looked up, the emojis there were then
    trigger,              \* the Trigger object, NoTrigger before there is one
    given,                \* the document last given to from_json, as given
    data,                 \* the document last read or written, as the call left it
    loaded,               \* the Trigger from_json made of the document to_json wrote
    exc,                  \* the exception the last Trigger operation raised, "" when none
    last,                 \* the last Trigger operation
    before,               \* the Trigger before the last enable, disable or toggle
    regex_argument,       \* the pattern last given to the constructor or ValidRegex.convert
    converted,            \* what ValidRegex.convert returned
    message               \* the message of the BadArgument ValidRegex.convert raised

convert_vars ==
    <<argument, my_perms, author_channel_perms, is_owner, author_top, me_top,
      emojis, pc, result, error, prompted, answer, future, timed_out, good_emojis,
      r_index, lookups, emojis_seen>>

\* the locals of a call that the loops over roles and emojis write
loop_vars ==
    <<good_emojis, r_index, lookups, emojis_seen>>

ctx_vars ==
    <<argument, my_perms, author_channel_perms, is_owner, author_top, me_top>>

trigger_vars ==
    <<trigger, given, data, loaded, exc, last, before, regex_argument, converted, message>>

regex_vars ==
    <<regex_argument, converted, message>>

vars == <<convert_vars, trigger_vars>>

(***************************************************************************)
(* The inputs                                                              *)
(***************************************************************************)
\* first fields: the action kinds and one that is none of them
FirstChunks == valid_reactions \cup {"bogus"}

\* argument fields: role names, emojis, a name nothing resolves
ArgChunks == {"Helper", "Moderator", "Nonexistent", ":smile:", "U+1F44D"}

\* n argument fields, each behind its delimiter
RECURSIVE ArgTails(_)
ArgTails(n) ==
    IF n = 0 THEN {<<>>}
    ELSE { <<";", a>> \o t : a \in ArgChunks, t \in ArgTails(n - 1) }

\* the argument strings: a first field and up to MaxArgs argument fields, and
\* two strings whose first field is not a single chunk
Arguments ==
    { <<f>> \o t : f \in FirstChunks, t \in UNION { ArgTails(n) : n \in 0..MaxArgs } }
        \cup { <<"add_role", "Helper">>, <<";", "Helper">> }

\* the permission sets of the bot: all, all but one, none
PermissionSets ==
    {Permissions, {}} \cup { Permissions \ {p} : p \in Permissions }

ConvertInit ==
    /\ argument \in Arguments
    /\ my_perms \in PermissionSets
    /\ is_owner \in BOOLEAN
    /\ author_channel_perms \in
           IF is_owner THEN {Permissions}
           ELSE {Permissions, Permissions \ {"manage_roles"}}
    /\ author_top \in TopPositions
    /\ me_top \in TopPositions
    /\ emojis = GuildEmojis
    /\ pc = "start"
    /\ result = <<>>
    /\ error = ""
    /\ prompted = FALSE
    /\ answer = "none"
    /\ future = "none"
    /\ timed_out = FALSE
    /\ good_emojis = <<>>
    /\ r_index = 0
    /\ lookups = <<>>
    /\ emojis_seen = <<>>

(***************************************************************************)
(* The steps of MultiResponse.convert                                      *)
(***************************************************************************)
\* the places a call is suspended at: the event loop runs other callbacks
Suspended == {"sending", "waiting", "cancelling", "reacting"}

\* the call goes on to the place and the locals of s
Becomes(s) ==
    /\ pc' = s.pc
    /\ result' = s.result
    /\ good_emojis' = s.good_emojis
    /\ r_index' = s.r_index
    /\ lookups' = s.lookups
    /\ emojis_seen' = s.emojis_seen

\* from the call to the first await that suspends (ctx.send of the prompt,
\* add_reaction), the return or the raise
Convert ==
    /\ pc = "start"
    /\ LET v == Validate(argument, my_perms)
       IN  IF v.error # ""
               THEN /\ pc' = "raised"
                    /\ error' = v.error
                    /\ UNCHANGED <<result, prompted, loop_vars>>
           ELSE IF v.result[1] = "mock"
               THEN /\ pc' = "sending"
                    /\ prompted' = TRUE
                    /\ result' = v.result
                    /\ UNCHANGED <<error, loop_vars>>
           ELSE /\ Becomes(Resolve(v.result, is_owner, author_top, me_top, emojis))
                /\ UNCHANGED <<error, prompted>>
    /\ UNCHANGED <<ctx_vars, emojis, answer, future, timed_out, trigger_vars>>

\* ctx.send returns: the reactions are started, pred is made and wait_for
\* is awaited
PromptSent ==
    /\ pc = "sending"
    /\ pc' = "waiting"
    /\ future' = "pending"
    /\ UNCHANGED <<ctx_vars, emojis, result, error, prompted, answer, timed_out,
                   loop_vars, trigger_vars>>

\* discord.py dispatches a reaction of the author on the prompt: the
\* predicate stores the answer in pred.result and the future of wait_for is
\* resolved; convert stays suspended at wait_for until the loop resumes it
ReactionAdd(yes) ==
    /\ pc = "waiting"
    /\ future = "pending"
    /\ answer' = IF yes THEN "yes" ELSE "no"
    /\ future' = "done"
    /\ UNCHANGED <<ctx_vars, emojis, pc, result, error, prompted, timed_out,
                   loop_vars, trigger_vars>>

\* the 15 seconds are over: the timer of asyncio.wait_for releases its
\* waiter; the future stays pending until convert is resumed
WaitTimeout ==
    /\ pc = "waiting"
    /\ future = "pending"
    /\ ~timed_out
    /\ timed_out' = TRUE
    /\ UNCHANGED <<ctx_vars, emojis, pc, result, error, prompted, answer, future,
                   loop_vars, trigger_vars>>

\* convert is resumed in wait_for.  With the future resolved it reads
\* pred.result and goes on or raises; with the future still pending (the
\* timer released the waiter) wait_for cancels it and awaits the cancellation
WaitResumed ==
    /\ pc = "waiting"
    /\ future = "done" \/ timed_out
    /\ IF future = "done"
           THEN /\ IF ~Rejected(answer = "yes")
                       THEN /\ Becomes(Resolve(result, is_owner, author_top, me_top,
                                               emojis))
                            /\ UNCHANGED error
                       ELSE /\ pc' = "raised"
                            /\ error' = ErrNotCreating
                            /\ result' = <<>>
                            /\ UNCHANGED loop_vars
                /\ UNCHANGED future
           ELSE /\ pc' = "cancelling"
                /\ future' = "cancelled"
                /\ UNCHANGED <<result, error, loop_vars>>
    /\ UNCHANGED <<ctx_vars, emojis, prompted, answer, timed_out, trigger_vars>>

\* the cancellation is done: wait_for raises asyncio.TimeoutError, convert
\* raises BadArgument
WaitCancelled ==
    /\ pc = "cancelling"
    /\ pc' = "raised"
    /\ error' = ErrNotCreating
    /\ result' = <<>>
    /\ UNCHANGED <<ctx_vars, emojis, prompted, answer, future, timed_out, loop_vars,
                   trigger_vars>>

\* add_reaction returns or raises: the argument is kept or dropped, and the
\* loop goes on to the next await of add_reaction or to the return
AddReaction ==
    /\ pc = "reacting"
    /\ LET r    == result[r_index]
           good == IF ReactionAccepted(r) THEN good_emojis \o <<r>> ELSE good_emojis
       IN  Becomes(EmojiLoop(result, r_index + 1, good, lookups, emojis_seen, emojis))
    /\ UNCHANGED <<ctx_vars, emojis, error, prompted, answer, future, timed_out,
                   trigger_vars>>

\* while the call is suspended, emojis are removed from or added to the guild
GuildEmojisUpdate(after) ==
    /\ pc \in Suspended
    /\ after # emojis
    /\ emojis' = after
    /\ UNCHANGED <<ctx_vars, pc, result, error, prompted, answer, future, timed_out,
                   loop_vars, trigger_vars>>

\* no command is being converted
ConvertIdle ==
    /\ argument = <<"delete">>
    /\ my_perms = Permissions
    /\ author_channel_perms = Permissions
    /\ is_owner = FALSE
    /\ author_top = 1
    /\ me_top = 1
    /\ emojis = GuildEmojis
    /\ pc = "returned"
    /\ result = <<"delete">>
    /\ error = ""
    /\ prompted = FALSE
    /\ answer = "none"
    /\ future = "none"
    /\ timed_out = FALSE
    /\ good_emojis = <<>>
    /\ r_index = 0
    /\ lookups = <<>>
    /\ emojis_seen = <<>>

(***************************************************************************)
(* The inputs of the Trigger operations                                    *)
(***************************************************************************)
\* marks a key a document or a keyword set does not hold
Absent == [type |-> "absent", val |-> "absent"]

\* the dictionary of the keys of f that are not marked absent
Present(f) ==
    [k \in { x \in DOMAIN f : f[x] # Absent } |-> f[k]]

\* a value other than the default for the fields the model does not vary one by one
Sample(field) ==
    CASE field = "enabled" -> PyBool(FALSE)
      [] field = "count" -> PyInt(7)
      [] field = "image" -> PyStr("image.png")
      [] field = "whitelist" -> PyList(<<5>>)
      [] field = "blacklist" -> PyList(<<6>>)
      [] field = "cooldown" -> PyDict(<<"time", 30>>)
      [] field = "multi_payload" -> PyList(<< <<"dm", "hello">> >>)
      [] field = "created_at" -> PyInt(1600)
      [] field = "ignore_commands" -> PyBool(TRUE)
      [] field = "ocr_search" -> PyBool(TRUE)
      [] field = "delete_after" -> PyInt(10)
      [] field = "read_filenames" -> PyBool(TRUE)
      [] field = "reply" -> PyBool(TRUE)
      [] field = "tts" -> PyBool(TRUE)
      [] field = "user_mention" -> PyBool(FALSE)
      [] field = "role_mention" -> PyBool(TRUE)
      [] field = "everyone_mention" -> PyBool(TRUE)
      [] field = "nsfw" -> PyBool(TRUE)

\* the fields Sample gives a value to
SampledFields ==
    OptionalFields \ {"text", "check_edits", "chance"}

Patterns == {PyStr("\\bspam\\b"), PyStr("(spam")}

\* response_type as the class declares it: a list of kinds
ResponseTypeLists ==
    {PyList(<<>>), PyList(<<"text">>), PyList(<<"delete">>), PyList(<<"ban">>),
     PyList(<<"text", "delete">>)}

\* response_type in a stored document: a list, a bare string (legacy), or missing
DocumentResponseTypes ==
    ResponseTypeLists \cup {PyStr("text"), PyStr("delete"), Absent}

\* text as the class declares it, and in a stored document (a boolean is legacy)
TextValues == {Absent, PyNone, PyStr("hello")}

DocumentTextValues == TextValues \cup {PyBool(TRUE), PyBool(FALSE)}

CheckEditsValues == {Absent, PyBool(TRUE), PyBool(FALSE)}

DocumentCheckEditsValues == CheckEditsValues \cup {PyNone}

IgnoreEditsValues == {Absent, PyBool(TRUE), PyBool(FALSE)}

ChanceValues == {Absent, PyInt(0 - 5), PyInt(50), PyInt(150)}

\* the keyword set or document with the given values; the fields of
\* SampledFields are all given (sampled) or all left out
MakeDict(required, text, check_edits, ignore_edits, chance, sampled) ==
    Present([k \in DOMAIN required \cup OptionalFields \cup {"ignore_edits"} |->
               CASE k \in DOMAIN required -> required[k]
                 [] k = "text" -> text
                 [] k = "check_edits" -> check_edits
                 [] k = "ignore_edits" -> ignore_edits
                 [] k = "chance" -> chance
                 [] OTHER -> IF sampled THEN Sample(k) ELSE Absent])

\* the keyword arguments of a call of the constructor
KeywordSets ==
    { MakeDict(<<>>, t, c, Absent, ch, s) :
        t \in TextValues, c \in CheckEditsValues, ch \in ChanceValues, s \in BOOLEAN }

\* the documents of the trigger list
Documents ==
    { MakeDict([name |-> PyStr("spam"), regex |-> re, author |-> PyInt(1),
                response_type |-> rt], t, c, i, ch, s) :
        re \in Patterns, rt \in DocumentResponseTypes, t \in DocumentTextValues,
        c \in DocumentCheckEditsValues, i \in IgnoreEditsValues,
        ch \in ChanceValues, s \in BOOLEAN }
      \cup { [regex |-> PyStr("a+"), author |-> PyInt(1)],
             [name |-> PyStr("spam"), author |-> PyInt(1)],
             [name |-> PyStr("spam"), regex |-> PyStr("a+")] }

\* no Trigger operation has run
TriggerIdle ==
    /\ trigger = NoTrigger
    /\ given = NoDocument
    /\ data = NoDocument
    /\ loaded = NoTrigger
    /\ exc = ""
    /\ last = "none"
    /\ before = NoTrigger
    /\ regex_argument = PyNone
    /\ converted = PyNone
    /\ message = ""

\* the Trigger of the guild the command is given in
ListedTrigger ==
    Trigger_init(PyStr("spam"), PyStr("a+"), PyList(<<"text">>), PyInt(1), <<>>).trigger

\* the guild has one Trigger; no operation on it has run
TriggerListed ==
    /\ trigger = ListedTrigger
    /\ given = NoDocument
    /\ data = NoDocument
    /\ loaded = NoTrigger
    /\ exc = ""
    /\ last = "init"
    /\ before = NoTrigger
    /\ regex_argument = PyStr("a+")
    /\ converted = PyNone
    /\ message = ""

(***************************************************************************)
(* The Trigger operations                                                  *)
(***************************************************************************)
\* Trigger(name, regex, response_type, author, **kwargs)
Construct(name, regex, response_type, author, kwargs) ==
    /\ last = "none"
    /\ LET made == Trigger_init(name, regex, response_type, author, kwargs)
       IN  /\ trigger' = made.trigger
           /\ exc' = made.exc
    /\ regex_argument' = regex
    /\ last' = "init"
    /\ UNCHANGED <<given, data, loaded, before, converted, message, convert_vars>>

\* Trigger.from_json(trigger_list[name]): a stored document is loaded
FromJson(document) ==
    /\ last = "none"
    /\ LET made == from_json(document)
       IN  /\ trigger' = made.trigger
           /\ exc' = made.exc
           /\ data' = made.data
    /\ given' = document
    /\ last' = "from_json"
    /\ UNCHANGED <<loaded, before, regex_vars, convert_vars>>

\* t.enable(), t.disable(), t.toggle()
Enable ==
    /\ trigger # NoTrigger
    /\ trigger' = enable(trigger)
    /\ exc' = ""
    /\ before' = trigger
    /\ last' = "enable"
    /\ UNCHANGED <<given, data, loaded, regex_vars, convert_vars>>

Disable ==
    /\ trigger # NoTrigger
    /\ trigger' = disable(trigger)
    /\ exc' = ""
    /\ before' = trigger
    /\ last' = "disable"
    /\ UNCHANGED <<given, data, loaded, regex_vars, convert_vars>>

Toggle ==
    /\ trigger # NoTrigger
    /\ trigger' = toggle(trigger)
    /\ exc' = ""
    /\ before' = trigger
    /\ last' = "toggle"
    /\ UNCHANGED <<given, data, loaded, regex_vars, convert_vars>>

\* data = await t.to_json()
ToJson ==
    /\ trigger # NoTrigger
    /\ data' = to_json(trigger)
    /\ exc' = ""
    /\ last' = "to_json"
    /\ UNCHANGED <<trigger, given, loaded, before, regex_vars, convert_vars>>

\* await Trigger.from_json(data), data being what to_json has just written
Reload ==
    /\ last = "to_json"
    /\ LET made == from_json(data)
       IN  /\ loaded' = made.trigger
           /\ exc' = made.exc
           /\ data' = made.data
    /\ given' = data
    /\ last' = "reload"
    /\ UNCHANGED <<trigger, before, regex_vars, convert_vars>>

\* the patterns given to ValidRegex.convert
RegexArguments ==
    Patterns \cup {PyStr("a+"), PyStr("[a-")}

\* await ValidRegex().convert(ctx, argument)
ValidRegexConvert(pattern) ==
    /\ last = "none"
    /\ LET out == ValidRegex_convert(pattern)
       IN  /\ exc' = out.exc
           /\ message' = out.message
           /\ converted' = out.result
    /\ regex_argument' = pattern
    /\ last' = "valid_regex"
    /\ UNCHANGED <<trigger, given, data, loaded, before, convert_vars>>

(***************************************************************************)
(* The specifications                                                      *)
(***************************************************************************)
\* while the call is suspended, another command toggles the Trigger
TriggerToggled ==
    /\ pc \in Suspended
    /\ Toggle

Init == ConvertInit /\ TriggerListed

Next ==
    \/ Convert
    \/ PromptSent
    \/ \E yes \in BOOLEAN : ReactionAdd(yes)
    \/ WaitTimeout
    \/ WaitResumed
    \/ WaitCancelled
    \/ AddReaction
    \/ \E after \in SUBSET GuildEmojis : GuildEmojisUpdate(after)
    \/ TriggerToggled

Spec == Init /\ [][Next]_vars

TriggerInit == ConvertIdle /\ TriggerIdle

\* the inputs of a first operation: none once an operation has run
First(inputs) ==
    IF last = "none" THEN inputs ELSE {}

TriggerNext ==
    \/ \E re \in First(Patterns), rt \in ResponseTypeLists, kwargs \in KeywordSets :
           Construct(PyStr("spam"), re, rt, PyInt(1), kwargs)
    \/ \E document \in First(Documents) : FromJson(document)
    \/ Enable
    \/ Disable
    \/ Toggle
    \/ ToJson
    \/ Reload
    \/ \E pattern \in First(RegexArguments) : ValidRegexConvert(pattern)

TriggerSpec == TriggerInit /\ [][TriggerNext]_vars

(***************************************************************************)
(* Properties of MultiResponse.convert (checked under Spec)                *)
(***************************************************************************)
\* the fixed action kinds: the declared response kinds and the legacy alias
ActionKinds == ResponseKinds \cup {"filter"}

HasDelimiter(s) ==
    \E i \in 1..Len(s) : s[i] = ";"

\* the text before the first ';'
RECURSIVE FirstField(_)
FirstField(s) ==
    IF s = <<>> THEN ""
    ELSE IF Head(s) = ";" THEN ""
    ELSE Head(s) \o FirstField(Tail(s))

\* the text behind the first ';'
AfterDelimiter(s) ==
    LET k == CHOOSE i \in 1..Len(s) : s[i] = ";" /\ \A j \in 1..(i - 1) : s[j] # ";"
    IN  SubSeq(s, k + 1, Len(s))

\* the fields behind the first one, in the order written
RECURSIVE ArgumentFields(_)
ArgumentFields(s) ==
    IF ~HasDelimiter(s) THEN <<>>
    ELSE <<FirstField(AfterDelimiter(s))>> \o ArgumentFields(AfterDelimiter(s))

Kind == FirstField(argument)

RoleKinds == {"add_role", "remove_role"}

\* a role the bot may assign for this author: below the bot's top role and,
\* unless the author owns the guild, below the author's top role
PermittedRole(role) ==
    /\ role.position < me_top
    /\ is_owner \/ role.position < author_top

ValidRoleArg(a) ==
    \E role \in GuildRoles : role.name = a /\ PermittedRole(role)

RoleIdOf(a) ==
    (CHOOSE role \in GuildRoles : role.name = a).id

RoleOfId(id) ==
    CHOOSE role \in GuildRoles : role.id = id

\* the emoji references of the arguments that resolve, each in the guild as
\* it was when the argument was looked up, in the order written
RECURSIVE EmojiRefs(_, _)
EmojiRefs(args, seen) ==
    IF args = <<>> \/ seen = <<>> THEN <<>>
    ELSE (IF ValidEmoji(Head(args), Head(seen)) = {} THEN <<>>
          ELSE <<CHOOSE e \in ValidEmoji(Head(args), Head(seen)) : TRUE>>)
             \o EmojiRefs(Tail(args), Tail(seen))

\* C1: an input whose first field is not one of the fixed action kinds is
\* refused with the unknown-kind BadArgument, whatever its other fields and
\* whatever the permissions; nothing is returned, no confirmation is asked
\* and no role or emoji is looked up.
C1_UnknownKindRefused ==
    (pc # "start" /\ Kind \notin ActionKinds) =>
        /\ pc = "raised"
        /\ error = ErrNotValidType(Kind)
        /\ result = <<>>
        /\ ~prompted
        /\ lookups = <<>>
        /\ good_emojis = <<>>

C1_Witness ==
    /\ pc = "raised"
    /\ Kind = "bogus"
    /\ Len(ArgumentFields(argument)) = 2
    /\ my_perms = {}
    /\ error = ErrNotValidType("bogus")

\* C2: the first element of a returned list is a fixed action kind and never
\* "filter"; the bare input "filter" is accepted and gives ["delete"].
C2_AliasNormalized ==
    /\ pc = "returned" => result[1] \in ActionKinds \ {"filter"}
    /\ (pc # "start" /\ argument = <<"filter">>) =>
           pc = "returned" /\ result = <<"delete">>

C2_Witness ==
    /\ pc = "returned"
    /\ argument = <<"filter">>
    /\ result = <<"delete">>
    /\ my_perms = {}

\* C3: without an argument field, every kind but delete, ban, kick (and
\* filter, which counts as delete) is refused as malformed, and delete, ban,
\* kick and filter are not refused for the lack of arguments.
C3_ArgumentRequired ==
    (pc # "start" /\ Kind \in ActionKinds /\ ~HasDelimiter(argument)) =>
        IF Kind \in {"delete", "ban", "kick", "filter"}
            THEN error # ErrNotValidPattern
            ELSE pc = "raised" /\ error = ErrNotValidPattern

C3_Witness ==
    /\ pc = "raised"
    /\ argument = <<"react">>
    /\ my_perms = {}
    /\ error = ErrNotValidPattern

\* C4 as claimed: for add_role and remove_role (with an argument field, so
\* that the permission test is reached) the parse is refused for the lack of
\* "Manage Roles" exactly when the invoking author lacks manage_roles in the
\* channel.
C4_AuthorPermissionTested ==
    (pc # "start" /\ Kind \in RoleKinds /\ HasDelimiter(argument)) =>
        IF "manage_roles" \notin author_channel_perms
            THEN pc = "raised" /\ error = ErrRequire("Manage Roles")
            ELSE error # ErrRequire("Manage Roles")

\* C4 amended: the capability tested is the bot's own (ctx.me): for add_role
\* and remove_role with an argument field the parse is refused for the lack
\* of "Manage Roles" exactly when the bot lacks manage_roles in the channel,
\* whatever the author's permissions.
C4_BotPermissionTested ==
    (pc # "start" /\ Kind \in RoleKinds /\ HasDelimiter(argument)) =>
        IF "manage_roles" \notin my_perms
            THEN pc = "raised" /\ error = ErrRequire("Manage Roles")
            ELSE error # ErrRequire("Manage Roles")

C4_Witness ==
    /\ pc = "raised"
    /\ Kind = "add_role"
    /\ error = ErrRequire("Manage Roles")
    /\ "manage_roles" \in author_channel_perms
    /\ "manage_roles" \notin my_perms

\* C5 (states): for mock, a list is returned only after the confirmation was
\* asked and the author answered yes while wait_for was still waiting; the
\* wait begins only once the prompt is sent; wait_for gives up (TimeoutError)
\* only when no answer was received; after the answer no, or a wait that was
\* given up, nothing is returned and the parse is refused.
C5_ConfirmedOrRefused ==
    Kind = "mock" =>
        /\ pc = "returned" =>
               prompted /\ answer = "yes" /\ future = "done" /\ result[1] = "mock"
        /\ pc = "sending" => prompted /\ answer = "none" /\ future = "none"
        /\ pc = "waiting" => prompted /\ (answer = "none" <=> future = "pending")
        /\ pc = "cancelling" => timed_out /\ answer = "none" /\ future = "cancelled"
        /\ answer = "no" => pc \in {"waiting", "raised"}
        /\ (pc = "raised" /\ prompted) =>
               error = ErrNotCreating /\ result = <<>> /\ answer # "yes"

\* a step of the timeout: the timer runs out, wait_for gives up, convert raises
TimeoutStep ==
    \/ timed_out' # timed_out
    \/ pc = "waiting" /\ pc' = "cancelling"
    \/ pc = "cancelling" /\ pc' = "raised"

\* C5: the above in every state; a wait that was given up, or one answered
\* no, ends in the refusal only; and the steps of the timeout change nothing
\* but the outcome of this parse.
C5_MockConfirmation ==
    /\ []C5_ConfirmedOrRefused
    /\ [][pc = "cancelling" => pc' \in {"cancelling", "raised"}]_vars
    /\ [][(pc = "waiting" /\ answer = "no") => pc' \in {"waiting", "raised"}]_vars
    /\ [][TimeoutStep =>
             UNCHANGED <<ctx_vars, emojis, prompted, answer, loop_vars,
                         trigger_vars>>]_vars

C5_Witness ==
    /\ Kind = "mock"
    /\ pc = "raised"
    /\ prompted
    /\ answer = "none"
    /\ timed_out
    /\ future = "cancelled"
    /\ error = ErrNotCreating
    /\ trigger["enabled"] = PyBool(FALSE)

\* the valid arguments of the input, resolved, in the order written
ResolvedArguments(valid(_), resolved(_)) ==
    LET kept == SelectSeq(ArgumentFields(argument), valid)
    IN  [i \in 1..Len(kept) |-> resolved(kept[i])]

\* C6: for add_role, remove_role and react with at least one valid argument,
\* the list returned is the kind followed by exactly the ids or emoji
\* references of the valid arguments in the order written, an emoji argument
\* being valid when it resolves in the guild as it is when the argument is
\* looked up (emojis may come and go while add_reaction is awaited); for the other
\* kinds it is the kind followed by the arguments as written, and ";" is
\* never an element.  "add_role;Moderator;Nonexistent" gives the kind and
\* the id of Moderator.
C6_ValidSubsetInOrder ==
    pc = "returned" =>
        /\ (Kind \in RoleKinds /\ \E i \in DOMAIN ArgumentFields(argument) :
                                     ValidRoleArg(ArgumentFields(argument)[i])) =>
               result = <<Kind>> \o ResolvedArguments(ValidRoleArg, RoleIdOf)
        /\ Kind = "react" => Len(emojis_seen) = Len(ArgumentFields(argument))
        /\ (Kind = "react" /\ EmojiRefs(ArgumentFields(argument), emojis_seen) # <<>>) =>
               result = <<Kind>> \o EmojiRefs(ArgumentFields(argument), emojis_seen)
        /\ Kind \notin RoleKinds \cup {"react"} =>
               /\ Tail(result) = ArgumentFields(argument)
               /\ \A i \in DOMAIN result : result[i] # ";"
        /\ (argument = <<"add_role", ";", "Moderator", ";", "Nonexistent">>
                /\ ValidRoleArg("Moderator")) =>
               result = <<"add_role", 102>>

C6_Witness ==
    /\ pc = "returned"
    /\ argument = <<"add_role", ";", "Moderator", ";", "Nonexistent">>
    /\ result = <<"add_role", 102>>

\* C7 as claimed: for add_role, remove_role and react, when arguments are
\* given and every one of them is dropped, the parse is refused as malformed
\* (the bot holding every permission, so that no other refusal comes first).
C7_EmptySubsetRefused ==
    (/\ pc \in {"returned", "raised"}
     /\ my_perms = Permissions
     /\ Kind \in RoleKinds \cup {"react"}
     /\ ArgumentFields(argument) # <<>>
     /\ IF Kind = "react"
            THEN /\ Len(emojis_seen) = Len(ArgumentFields(argument))
                 /\ EmojiRefs(ArgumentFields(argument), emojis_seen) = <<>>
            ELSE SelectSeq(ArgumentFields(argument), ValidRoleArg) = <<>>)
        => pc = "raised" /\ error = ErrNotValidPattern

\* C8 as claimed: every role id returned for add_role or remove_role is of a
\* role below the author's top role and below the bot's top role, the guild
\* owner included.
C8_BelowAuthorAndBot ==
    (pc = "returned" /\ Kind \in RoleKinds) =>
        \A i \in 2..Len(result) :
            /\ RoleOfId(result[i]).position < author_top
            /\ RoleOfId(result[i]).position < me_top

\* C8 amended: every role id returned for add_role or remove_role is of a
\* role below the bot's top role and, unless the author is the guild owner,
\* below the author's top role.
C8_BelowBotAndAuthorUnlessOwner ==
    (pc = "returned" /\ Kind \in RoleKinds) =>
        \A i \in 2..Len(result) :
            /\ RoleOfId(result[i]).position < me_top
            /\ ~is_owner => RoleOfId(result[i]).position < author_top

C8_Witness ==
    /\ pc = "returned"
    /\ Kind = "add_role"
    /\ is_owner
    /\ \E i \in 2..Len(result) : RoleOfId(result[i]).position >= author_top

(***************************************************************************)
(* Properties of Trigger (checked under TriggerSpec)                       *)
(***************************************************************************)
\* C9: from_json of what to_json wrote for a Trigger gives a Trigger with
\* the same value in every field (the pattern text for the pattern).
C9_RoundTrip ==
    last = "reload" =>
        /\ exc = ""
        /\ loaded # NoTrigger
        /\ \A f \in TriggerFields : loaded[f] = trigger[f]

C9_Witness ==
    /\ last = "reload"
    /\ loaded = trigger
    /\ Contains(trigger["response_type"], {"delete"})
    /\ trigger["read_filenames"] = PyBool(TRUE)
    /\ trigger["chance"] = PyInt(150)
    /\ trigger["enabled"] = PyBool(TRUE)

\* C10 as claimed: from_json of a document whose response_type is a bare
\* string S raises nothing and gives a Trigger whose response_type is [S].
C10_BareStringWrapped ==
    (/\ last = "from_json"
     /\ {"name", "regex", "author", "response_type"} \subseteq DOMAIN given
     /\ IsStr(given["response_type"])
     /\ Compiles(given["regex"]))
        => /\ exc = ""
           /\ trigger # NoTrigger
           /\ trigger["response_type"] = PyList(<<given["response_type"].val>>)

\* a document from_json gets past its required keys and its response_type
\* with: name, author and a pattern that compiles, response_type a list or
\* missing
Loadable(document) ==
    /\ {"name", "regex", "author"} \subseteq DOMAIN document
    /\ document["regex"].val \notin {"(spam"}
    /\ ~IsStr(DictGet(document, "response_type", PyList(<<>>)))

\* C11: from_json of a document that holds a text field: when its
\* response_type contains delete and text is a boolean b, the Trigger has
\* read_filenames = b and text None; otherwise text is the document's and
\* read_filenames is the document's (the default when the document has none).
C11_LegacyTextMoved ==
    (last = "from_json" /\ Loadable(given) /\ "text" \in DOMAIN given) =>
        /\ exc = ""
        /\ trigger # NoTrigger
        /\ IF Contains(DictGet(given, "response_type", PyList(<<>>)), {"delete"})
                /\ given["text"].type = "bool"
               THEN /\ trigger["read_filenames"] = given["text"]
                    /\ trigger["text"] = PyNone
               ELSE /\ trigger["text"] = given["text"]
                    /\ trigger["read_filenames"] =
                           DictGet(given, "read_filenames", PyBool(FALSE))

C11_Witness ==
    /\ last = "from_json"
    /\ Loadable(given)
    /\ {"text", "response_type"} \subseteq DOMAIN given
    /\ given["text"] = PyBool(TRUE)
    /\ given["response_type"] = PyList(<<"text", "delete">>)
    /\ "read_filenames" \notin DOMAIN given
    /\ trigger # NoTrigger
    /\ trigger["read_filenames"] = PyBool(TRUE)
    /\ trigger["text"] = PyNone

\* the fields from_json itself fills in from legacy keys when they are left
\* out: check_edits from ignore_edits, read_filenames from a boolean text
MigratedFields == {"check_edits", "read_filenames"}

\* C12 as claimed: from_json raises nothing on a document that holds name,
\* author and a pattern that compiles, whatever optional keys it leaves out
\* and whatever its response kinds are, and every optional field the
\* document leaves out has the default of the constructor (stated here for
\* the fields other than the two from_json migrates).
C12_OmittedFieldsDefaulted ==
    (last = "from_json" /\ Loadable(given)) =>
        /\ exc = ""
        /\ trigger # NoTrigger
        /\ \A f \in (OptionalFields \ MigratedFields) \ DOMAIN given :
               trigger[f] = Default(f)

\* the pattern texts of the model that are not regular expressions
InvalidPatterns == {"(spam", "[a-"}

\* C13: no Trigger has a pattern that does not compile: the constructor and
\* from_json raise on such a pattern and make no Trigger; ValidRegex.convert
\* raises a BadArgument whose message ends with the compile error on such
\* a pattern and returns every other pattern as given.
C13_InvalidPatternRefused ==
    /\ trigger # NoTrigger => trigger["regex"].val \notin InvalidPatterns
    /\ loaded # NoTrigger => loaded["regex"].val \notin InvalidPatterns
    /\ (last = "init" /\ regex_argument.val \in InvalidPatterns) =>
           trigger = NoTrigger /\ exc = "re.error"
    /\ (last = "init" /\ regex_argument.val \notin InvalidPatterns) =>
           trigger # NoTrigger /\ exc = ""
    /\ (last = "from_json" /\ "regex" \in DOMAIN given
            /\ given["regex"].val \in InvalidPatterns) =>
           trigger = NoTrigger /\ exc \in {"re.error", "KeyError"}
    /\ last = "valid_regex" =>
           IF regex_argument.val \in InvalidPatterns
               THEN /\ exc = "BadArgument"
                    /\ converted = PyNone
                    /\ message = ErrNotValidRegex(regex_argument.val,
                                                  CompileError(regex_argument))
               ELSE /\ exc = ""
                    /\ converted = regex_argument

C13_Witness ==
    /\ last = "valid_regex"
    /\ regex_argument = PyStr("[a-")
    /\ exc = "BadArgument"
    /\ converted = PyNone
    /\ message # ""

SwitchOperations == {"enable", "disable", "toggle"}

\* C14: a second enable() leaves the Trigger as the first left it, and so
\* does a second disable(); a second toggle() gives back the Trigger there
\* was before the first; none of the three changes a field other than
\* enabled.
C14_SwitchIdempotent ==
    /\ [][(last = "enable" /\ last' = "enable") => trigger' = trigger]_vars
    /\ [][(last = "disable" /\ last' = "disable") => trigger' = trigger]_vars
    /\ [][(last = "toggle" /\ last' = "toggle") => trigger' = before]_vars
    /\ [][last' \in SwitchOperations =>
             \A f \in TriggerFields \ {"enabled"} : trigger'[f] = trigger[f]]_vars

C14_Witness ==
    /\ last = "toggle"
    /\ before # NoTrigger
    /\ before["enabled"] = PyBool(FALSE)
    /\ trigger["enabled"] = PyBool(TRUE)
    /\ trigger["count"] = PyInt(7)
    /\ data # NoDocument

\* C15 as claimed: the chance of every Trigger there is, built by the
\* constructor or loaded by from_json, lies within 0..100.
C15_ChanceClamped ==
    /\ trigger # NoTrigger =>
           trigger["chance"].val >= 0 /\ trigger["chance"].val <= 100
    /\ loaded # NoTrigger =>
           loaded["chance"].val >= 0 /\ loaded["chance"].val <= 100

\* C16 as claimed: an input whose first field is "filter" is refused with
\* the BadArgument naming "Manage Messages" whenever the bot lacks
\* manage_messages in the channel.
C16_FilterNeedsManageMessages ==
    (pc # "start" /\ Kind = "filter" /\ "manage_messages" \notin my_perms) =>
        pc = "raised" /\ error = ErrRequire("Manage Messages")
====
